---- MODULE Spec2Model ----
(***************************************************************************)
(* Model of the Go chat server: the ClientManager event loop (manager.go), *)
(* the per-connection read/write goroutines (Client.go) and the upgrade    *)
(* handler (main.go).  Every channel of the program is unbuffered, so a    *)
(* channel operation is a rendezvous of the sending and the receiving      *)
(* goroutine and is modelled as one joint step of the two.                 *)
(***************************************************************************)
EXTENDS Integers, Sequences, FiniteSets, TLC

\* Bound: inbound text frames read from the peers, all connections together,
\* when every connection of Conns connects.
MaxMsgs == 1

\* Bound: the same, when only the connections of Talkers connect.
MaxTalk == 2

\* Bound: connections whose peer goes away (a read error that is not caused
\* by the server closing the socket).
MaxDrops == 1

\* Bound: Register requests received for a connection that is already in
\* the registry.
MaxDups == 1

\* Bound: inbound text frames read from the peers, all connections together,
\* in the specification with fair scheduling.
MaxFair == 1

\* Identities of the connections the upgrade handler may create (uuid.NewString()).
Conns == {"A", "B", "C"}
Talkers == {"A", "B"}

\* The k-th text frame the server reads from its peers.  The texts are
\* pairwise different, so that two submissions can be told apart on the wire.
Text(k) == <<"h", "i">> \o [i \in 1..(k - 1) |-> "!"]

None == "none"

\* Identities are fresh per connection (uuid.NewString()); the connections
\* are named in the order in which the manager receives them.
Order == <<"A", "B", "C">>
Before(d, c) == \E i, j \in 1..Len(Order) : i < j /\ Order[i] = d /\ Order[j] = c

VARIABLES
    clients,   \* manager.clients: the registry
    closes,    \* per connection: number of close(conn.send) executed
    hs,        \* per connection: position of wsHandler
    rpc,       \* per connection: position of Client.read
    subm,      \* per connection: texts read from the peer, in order
    wpc,       \* per connection: position of Client.write
    hold,      \* per connection: message received from c.send, being written
    out,       \* per connection: frames passed to socket.WriteMessage
    sockClosed,\* per connection: c.socket.Close() has been called
    dropped,   \* connections whose peer went away
    again,     \* connections a second Register request has been received for
    mpc,       \* position of ClientManager.start
    mmsg,      \* message the manager is fanning out
    ignore,    \* argument `ignore` of ClientManager.send
    todo,      \* connections the current range loop has not yet produced
    target,    \* connection the manager is blocked sending to
    op         \* history: the request being processed / last processed

vars == <<clients, closes, hs, rpc, subm, wpc, hold, out, sockClosed, dropped, again,
          mpc, mmsg, ignore, todo, target, op>>

----------------------------------------------------------------------------
\* Message and json.Marshal with `omitempty` on every field.

Message(sender, recipient, content) ==
    [sender |-> sender, recipient |-> recipient, content |-> content]

\* The fields json.Marshal writes: `omitempty` drops an empty string.
Present(m) ==
    (IF m.sender # "" THEN {"sender"} ELSE {})
    \cup (IF m.recipient # "" THEN {"recipient"} ELSE {})
    \cup (IF Len(m.content) # 0 THEN {"content"} ELSE {})

Marshal(m) == [k \in Present(m) |-> m[k]]

JoinNotice ==
    Marshal(Message("", "", <<"N","e","w"," ","c","l","i","e","n","t"," ",
                              "c","o","n","n","e","c","t","e","d">>))

LeaveNotice ==
    Marshal(Message("", "", <<"/","A"," ","s","o","c","k","e","t"," ",
                              "d","i","s","c","o","n","n","e","c","t","e","d",".">>))

PeerMessageAnonymous(c, t) == Marshal(Message("", "", t))
PeerMessage(c, t) == Marshal(Message(c, "", t))

NoMsg == Marshal(Message("", "", <<>>))

\* Frames handed to c.socket.WriteMessage.
TextFrame(m) == [type |-> "text", data |-> m]
CloseFrame == [type |-> "close", data |-> NoMsg]

\* The channel c.send is closed once close() has been executed on it.
Closed(c) == closes[c] > 0

\* The messages the write goroutine of c has passed to WriteMessage as text
\* frames, in order (the close frame, if any, is the last frame of out[c]).
Written(c) ==
    LET n == IF Len(out[c]) > 0 /\ out[c][Len(out[c])].type = "close"
               THEN Len(out[c]) - 1 ELSE Len(out[c])
    IN [i \in 1..n |-> out[c][i].data]

\* Everything the write goroutine of c has received from c.send so far.
Delivered(c) ==
    IF wpc[c] = "write" THEN Append(Written(c), hold[c]) ELSE Written(c)

RECURSIVE SumLen(_, _)
SumLen(f, S) ==
    IF S = {} THEN 0
    ELSE LET c == CHOOSE x \in S : TRUE IN Len(f[c]) + SumLen(f, S \ {c})

TotalRead == SumLen(subm, Conns)

\* History of one request of the manager: its kind, the connection that
\* submitted it, the registry when it was received, the connections whose
\* write goroutine has received a message during it, and the connections
\* that were visited by the broadcast loop while unable to receive.
NoOp == [kind |-> "none", conn |-> None, before |-> {}, got |-> {}, full |-> {}]

StartOp(kind, c) ==
    [kind |-> kind, conn |-> c, before |-> clients, got |-> {}, full |-> {}]

\* The history records what the step did to the queues.
Track(o, visitedFull) ==
    op' = [o EXCEPT !.got = @ \cup {d \in Conns : Delivered(d)' # Delivered(d)},
                    !.full = @ \cup visitedFull]

Init ==
    /\ clients = {}
    /\ closes = [c \in Conns |-> 0]
    /\ hs = [c \in Conns |-> "new"]
    /\ rpc = [c \in Conns |-> "idle"]
    /\ subm = [c \in Conns |-> <<>>]
    /\ wpc = [c \in Conns |-> "idle"]
    /\ hold = [c \in Conns |-> NoMsg]
    /\ out = [c \in Conns |-> <<>>]
    /\ sockClosed = [c \in Conns |-> FALSE]
    /\ dropped = {}
    /\ again = {}
    /\ mpc = "select"
    /\ mmsg = NoMsg
    /\ ignore = None
    /\ todo = {}
    /\ target = None
    /\ op = NoOp

----------------------------------------------------------------------------
\* wsHandler (main.go)

\* upgrader.Upgrade succeeds and the Client is created with a fresh channel;
\* the handler then blocks on manager.register <- client.
Upgrade(c) ==
    /\ hs[c] = "new"
    /\ \A d \in Conns : Before(d, c) => hs[d] # "new"
    /\ hs' = [hs EXCEPT ![c] = "register"]
    /\ UNCHANGED <<clients, closes, rpc, subm, wpc, hold, out, sockClosed, dropped, again,
                   mpc, mmsg, ignore, todo, target, op>>

\* go client.write().  The goroutine starts at the receive of `range c.send`.
GoWrite(c) ==
    /\ hs[c] = "gowrite"
    /\ hs' = [hs EXCEPT ![c] = "done"]
    /\ wpc' = [wpc EXCEPT ![c] = "recv"]
    /\ UNCHANGED <<clients, closes, rpc, subm, hold, out, sockClosed, dropped, again,
                   mpc, mmsg, ignore, todo, target, op>>

----------------------------------------------------------------------------
\* ClientManager.send and ClientManager.start (manager.go)

\* delete(manager.clients, conn)
DeleteNothing(reg, gone) == reg
Delete(reg, gone) == reg \ gone

\* close(conn.send)
CloseNothing(cl, gone) == cl
CloseSend(cl, gone) == [d \in Conns |-> IF d \in gone THEN cl[d] + 1 ELSE cl[d]]

\* if _, ok := manager.clients[conn]; ok
RegisteredAlways(c) == TRUE
Registered(c) == c \in clients

\* `if conn != ignore` of send(): the connection is passed over.
SkipsNone(c) == FALSE
Skips(c) == c = ignore

\* The connections the broadcast loop ranges over: all of manager.clients,
\* the origin of the message among them.
FanoutSetNoEcho(origin) == clients \ {origin}
FanoutSet(origin) == clients

\* The connections whose write goroutine is blocked receiving from c.send:
\* the only ones a send on the unbuffered channel can complete on at once.
ReceivingIfStarted == {d \in Conns : wpc[d] \in {"recv", "write"} /\ ~Closed(d)}
Receiving == {d \in Conns : wpc[d] = "recv" /\ ~Closed(d)}

\* The message Client.read submits: the text it has just read, wrapped.
PendingFirst(c) == PeerMessage(c, subm[c][1])
Pending(c) == PeerMessage(c, subm[c][Len(subm[c])])

\* Entering `for conn := range m.clients` of send(); the loop is left at
\* once when the map is empty.
EnterSendToIgnored(msg, ign, members) ==
    /\ mmsg' = msg
    /\ ignore' = None
    /\ todo' = {ign}
    /\ target' = None
    /\ mpc' = "send"
EnterSend(msg, ign, members) ==
    /\ mmsg' = msg
    /\ ignore' = ign
    /\ todo' = members
    /\ target' = None
    /\ mpc' = IF members = {} THEN "select" ELSE "send"

\* case conn := <-manager.register (rendezvous with wsHandler).  The handler
\* goes on to `go client.read()`, whose goroutine starts blocked in
\* ReadMessage; that start is part of this step.
Register(c) ==
    /\ mpc = "select"
    /\ hs[c] = "register"
    /\ \A d \in Conns : Before(d, c) => hs[d] \notin {"new", "register"}
    /\ hs' = [hs EXCEPT ![c] = "gowrite"]
    /\ rpc' = [rpc EXCEPT ![c] = "read"]
    /\ clients' = clients \cup {c}
    /\ EnterSend(JoinNotice, c, clients')
    /\ UNCHANGED <<closes, subm, wpc, hold, out, sockClosed, dropped, again>>
    /\ Track(StartOp("register", c), {})

\* case conn := <-manager.register, received for a connection that is already
\* in manager.clients: the same three statements run, there is no other
\* branch.  The handler never submits a Client twice; the request comes from
\* another user of the channel.
RegisterAgain(c) ==
    /\ mpc = "select"
    /\ c \in clients
    /\ c \notin again
    /\ Cardinality(again) < MaxDups
    /\ again' = again \cup {c}
    /\ clients' = clients \cup {c}
    /\ EnterSend(JoinNotice, c, clients')
    /\ UNCHANGED <<closes, hs, rpc, subm, wpc, hold, out, sockClosed, dropped>>
    /\ Track(StartOp("register", c), {})

\* case conn := <-manager.unregister (rendezvous with Client.read).  The
\* reader goes on to c.socket.Close(), which is part of this step.
Unregister(c) ==
    /\ mpc = "select"
    /\ rpc[c] \in {"unregister", "deferunregister"}
    /\ rpc' = [rpc EXCEPT ![c] = IF rpc[c] = "unregister" THEN "deferunregister"
                                                         ELSE "done"]
    /\ sockClosed' = [sockClosed EXCEPT ![c] = TRUE]
    /\ IF Registered(c)
          THEN /\ closes' = CloseSend(closes, {c})
               /\ clients' = Delete(clients, {c})
               /\ EnterSend(LeaveNotice, c, clients')
          ELSE UNCHANGED <<closes, clients, mmsg, ignore, todo, target, mpc>>
    /\ UNCHANGED <<hs, subm, wpc, hold, out, dropped, again>>
    /\ Track(StartOp("unregister", c), {})

\* One iteration of the range loop of send(): the map yields a connection;
\* the ignored one is passed over, any other becomes the target of a
\* blocking channel send.
SendNext ==
    /\ mpc = "send"
    /\ target = None
    /\ \E c \in todo :
          /\ todo' = todo \ {c}
          /\ IF Skips(c)
                THEN /\ target' = None
                     /\ mpc' = IF todo' = {} THEN "select" ELSE "send"
                ELSE /\ target' = c
                     /\ mpc' = mpc
    /\ UNCHANGED <<clients, closes, hs, rpc, subm, wpc, hold, out, sockClosed,
                   dropped, again, mmsg, ignore, op>>

\* conn.send <- message in send(): completes when the write goroutine of the
\* target is receiving from its channel.
SendDeliver ==
    /\ mpc = "send"
    /\ target # None
    /\ target \in Receiving
    /\ wpc' = [wpc EXCEPT ![target] = "write"]
    /\ hold' = [hold EXCEPT ![target] = mmsg]
    /\ target' = None
    /\ mpc' = IF todo = {} THEN "select" ELSE "send"
    /\ UNCHANGED <<clients, closes, hs, rpc, subm, out, sockClosed, dropped, again,
                   mmsg, ignore, todo>>
    /\ Track(op, {})

\* case message := <-manager.broadcast (rendezvous with Client.read) and the
\* whole loop over manager.clients: select { case conn.send <- message:
\* default: close(conn.send); delete(manager.clients, conn) }.  No iteration
\* blocks, and an iteration reads and writes only the state of the connection
\* it visits, so the loop is one step whatever order the map yields.
Broadcast(c) ==
    /\ mpc = "select"
    /\ rpc[c] = "broadcast"
    /\ rpc' = [rpc EXCEPT ![c] = "read"]
    /\ mmsg' = Pending(c)
    /\ LET visited == FanoutSet(c)
           taken == visited \cap Receiving
           full == visited \ Receiving
       IN /\ wpc' = [d \in Conns |-> IF d \in taken THEN "write" ELSE wpc[d]]
          /\ hold' = [d \in Conns |-> IF d \in taken THEN mmsg' ELSE hold[d]]
          /\ closes' = CloseSend(closes, full)
          /\ clients' = Delete(clients, full)
          /\ UNCHANGED <<hs, subm, out, sockClosed, dropped, again, mpc, ignore, todo, target>>
          /\ Track(StartOp("broadcast", c), {d \in clients : wpc[d] # "recv"})

----------------------------------------------------------------------------
\* Client.read (Client.go)

\* c.socket.ReadMessage() returns a text frame of the peer.
ReadMessage(c, max) ==
    /\ rpc[c] = "read"
    /\ ~sockClosed[c]
    /\ TotalRead < max
    /\ subm' = [subm EXCEPT ![c] = Append(@, Text(TotalRead + 1))]
    /\ rpc' = [rpc EXCEPT ![c] = "broadcast"]
    /\ UNCHANGED <<clients, closes, hs, wpc, hold, out, sockClosed, dropped, again,
                   mpc, mmsg, ignore, todo, target, op>>

\* c.socket.ReadMessage() returns an error: the peer went away, or the
\* socket was closed on this side.
ReadErrorDeletesItself(c) ==
    /\ rpc[c] = "read"
    /\ rpc' = [rpc EXCEPT ![c] = "unregister"]
    /\ clients' = clients \ {c}
    /\ IF sockClosed[c]
          THEN UNCHANGED dropped
          ELSE /\ Cardinality(dropped) < MaxDrops
               /\ dropped' = dropped \cup {c}
    /\ UNCHANGED <<again, closes, hs, subm, wpc, hold, out, sockClosed,
                   mpc, mmsg, ignore, todo, target, op>>
ReadError(c) ==
    /\ rpc[c] = "read"
    /\ rpc' = [rpc EXCEPT ![c] = "unregister"]
    /\ IF sockClosed[c]
          THEN UNCHANGED dropped
          ELSE /\ Cardinality(dropped) < MaxDrops
               /\ dropped' = dropped \cup {c}
    /\ UNCHANGED <<again, clients, closes, hs, subm, wpc, hold, out, sockClosed,
                   mpc, mmsg, ignore, todo, target, op>>

----------------------------------------------------------------------------
\* Client.write (Client.go)

\* c.socket.WriteMessage(websocket.TextMessage, message); the result is
\* discarded and the loop goes back to receiving.
WriteMessage(c) ==
    /\ wpc[c] = "write"
    /\ out' = [out EXCEPT ![c] = Append(@, TextFrame(hold[c]))]
    /\ wpc' = [wpc EXCEPT ![c] = "recv"]
    /\ hold' = [hold EXCEPT ![c] = NoMsg]
    /\ UNCHANGED <<clients, closes, hs, rpc, subm, sockClosed, dropped, again,
                   mpc, mmsg, ignore, todo, target, op>>

\* `range c.send` ends: the goroutine is at the receive, with every message
\* it has received written, and the channel is closed (unbuffered, hence
\* empty).  The goroutine then writes the close frame and the deferred
\* c.socket.Close() runs.
RangeEndsWhileWriting(c) == wpc[c] \in {"recv", "write"} /\ Closed(c)
RangeEnds(c) == wpc[c] = "recv" /\ Closed(c)

WriteClose(c) ==
    /\ RangeEnds(c)
    /\ out' = [out EXCEPT ![c] = Append(@, CloseFrame)]
    /\ sockClosed' = [sockClosed EXCEPT ![c] = TRUE]
    /\ wpc' = [wpc EXCEPT ![c] = "done"]
    /\ UNCHANGED <<clients, closes, hs, rpc, subm, hold, dropped, again,
                   mpc, mmsg, ignore, todo, target, op>>

----------------------------------------------------------------------------
\* The goroutines of the connections in S, the peers sending at most max texts.
NextOf(S, max) ==
    \/ \E c \in S : Upgrade(c)
    \/ \E c \in S : GoWrite(c)
    \/ \E c \in S : Register(c)
    \/ \E c \in S : Unregister(c)
    \/ \E c \in S : Broadcast(c)
    \/ SendNext
    \/ SendDeliver
    \/ \E c \in S : ReadMessage(c, max)
    \/ \E c \in S : ReadError(c)
    \/ \E c \in S : WriteMessage(c)
    \/ \E c \in S : WriteClose(c)

Next == NextOf(Conns, MaxMsgs)

Spec == Init /\ [][Next]_vars

NextTalk == NextOf(Talkers, MaxTalk)

SpecTalk == Init /\ [][NextTalk]_vars

\* The manager used through its channels by the handler and by a user that
\* submits a registered Client once more.
NextDup == NextTalk \/ \E c \in Talkers : RegisterAgain(c)

SpecDup == Init /\ [][NextDup]_vars

\* Scheduling.  Every goroutine that can take a step is eventually run: the
\* handler starts the write goroutine, a write goroutine finishes the write
\* it is in (its peer accepts writes) and sees its closed channel, a read on
\* a socket closed on this side returns, the manager goes on in send().  The
\* select of the manager chooses among its ready cases at random, so a
\* goroutine that stays blocked on one of its channels is eventually received
\* from.  That a peer connects, sends a text or goes away is not required.
Fairness ==
    /\ \A c \in Talkers :
          /\ WF_vars(GoWrite(c))
          /\ WF_vars(WriteMessage(c))
          /\ WF_vars(WriteClose(c))
          /\ WF_vars(sockClosed[c] /\ ReadError(c))
          /\ SF_vars(Register(c))
          /\ SF_vars(Unregister(c))
          /\ SF_vars(Broadcast(c))
    /\ WF_vars(SendNext)
    /\ WF_vars(SendDeliver)

NextFair == NextOf(Talkers, MaxFair)

FairTalk == Init /\ [][NextFair]_vars /\ Fairness

----------------------------------------------------------------------------
\* Vocabulary of the properties.

\* c's Register request has been received by the manager.
Accepted(c) == hs[c] \notin {"new", "register"}

\* c has been taken out of the registry, or its queue has been closed.
Removed(c) == (Accepted(c) /\ c \notin clients) \/ Closed(c)

\* Message m has been placed on the outbound queue of d.
Has(d, m) == \E i \in 1..Len(Delivered(d)) : Delivered(d)[i] = m

\* The step is the manager receiving a request of the reader of c.
BroadcastStep(c) == mpc = "select" /\ rpc[c] = "broadcast" /\ rpc'[c] = "read"
UnregisterStep(c) ==
    /\ mpc = "select"
    /\ rpc[c] \in {"unregister", "deferunregister"}
    /\ rpc'[c] # rpc[c]

\* The manager is between two requests.
Idle == mpc = "select"

\* C1 (as claimed): a Broadcast pass places the peer message on the outbound
\* queue of every connection registered when the manager processes it (here:
\* when the outbound loop of every registered connection has been started).
C1_FanOutReachesEveryRegistered ==
    [][\A c \in Conns :
          (BroadcastStep(c) /\ \A d \in clients : wpc[d] # "idle") =>
             \A d \in clients : Delivered(d)' = Append(Delivered(d), mmsg')]_vars

\* C1 (amended): a Broadcast pass places the peer message, in that one pass,
\* on the queue of every registered connection whose outbound loop is
\* receiving, the originator included when it is one of them; every other
\* registered connection is evicted by the pass and does not get the message.
C1_FanOutReachesEveryReceiving ==
    [][\A c \in Conns : BroadcastStep(c) =>
          /\ mmsg' = PeerMessage(c, subm[c][Len(subm[c])])
          /\ mpc' = "select"
          /\ \A d \in clients :
                IF wpc[d] = "recv"
                  THEN /\ Delivered(d)' = Append(Delivered(d), mmsg')
                       /\ d \in clients'
                  ELSE /\ Delivered(d)' = Delivered(d)
                       /\ d \notin clients'
                       /\ Closed(d)']_vars

C1_Witness ==
    /\ op.kind = "broadcast"
    /\ op.conn \in op.got
    /\ Cardinality(op.got) = 2
    /\ Cardinality(op.full) = 1
    /\ \A d \in op.got : Has(d, mmsg)

\* C2 (as claimed): the manager is never blocked on a delivery to one
\* connection's queue: it is never executing a send on the channel of a
\* connection whose outbound loop is busy writing to its peer, where it
\* can go on only when that peer has accepted the write.
C2_ManagerNeverWaitsForOneQueue ==
    ~(mpc = "send" /\ target # None /\ wpc[target] = "write"
        /\ ~ENABLED (SendNext \/ SendDeliver))

\* C3: a connection whose queue cannot accept the message when a Broadcast
\* pass runs is removed from the registry and its queue closed by that pass,
\* the pass delivers nothing but the peer message (no leave notice), and the
\* connections that can accept the message get it.
C3_SlowConsumerEvicted ==
    op.kind = "broadcast" =>
       /\ \A x \in op.full :
             /\ x \in op.before
             /\ x \notin clients
             /\ Closed(x)
             /\ x \notin op.got
       /\ op.got = op.before \ op.full
       /\ \A d \in op.got :
             /\ Delivered(d)[Len(Delivered(d))] = mmsg
             /\ "sender" \in DOMAIN mmsg
             /\ d \in clients
       /\ mmsg # LeaveNotice
       /\ Idle

C3_Witness ==
    /\ op.kind = "broadcast"
    /\ op.full # {}
    /\ op.got # {}
    /\ \E x \in op.full : wpc[x] = "write"

\* C4: while and after Register(C) is processed with registry R, the join
\* notice goes to members of R other than C only, never to C's own queue;
\* when the request is completed it has gone to every one of them.
C4_JoinBroadcast ==
    op.kind = "register" =>
       /\ op.got \subseteq op.before \ {op.conn}
       /\ Idle => op.got = op.before \ {op.conn}
       /\ \A d \in op.got : Delivered(d)[Len(Delivered(d))] = JoinNotice
       /\ Delivered(op.conn) = <<>>

C4_Witness ==
    /\ op.kind = "register"
    /\ Idle
    /\ op.conn = "C"
    /\ op.before = {"A", "B"}
    /\ op.got = {"A", "B"}

\* Register(A) then Register(B) have been processed on an empty manager and
\* nothing else has happened.
AfterRegisterAB ==
    /\ op.kind = "register"
    /\ op.conn = "B"
    /\ op.before = {"A"}
    /\ Idle
    /\ ~Accepted("C")
    /\ TotalRead = 0
    /\ \A c \in Conns : rpc[c] \in {"idle", "read"}

\* C5 (as claimed): after Register(A), Register(B) the join notice is on B's
\* queue and not on A's.
C5_JoinNoticeToNewcomer ==
    AfterRegisterAB => (Has("B", JoinNotice) /\ ~Has("A", JoinNotice))

\* C5 (amended): after Register(A), Register(B) the join notice is on A's
\* queue, once, and nothing is on B's.
C5_JoinNoticeToEarlierMember ==
    AfterRegisterAB => (Delivered("A") = <<JoinNotice>> /\ Delivered("B") = <<>>)

C5_Witness == AfterRegisterAB /\ out["A"] = <<TextFrame(JoinNotice)>>

\* C6: when Unregister(B) is processed with B in the registry, B is removed
\* and its queue closed; the leave notice goes to the remaining members only,
\* not to B, and when the request is completed it has gone to every one of
\* them.
C6_LeaveBroadcast ==
    (op.kind = "unregister" /\ op.conn \in op.before) =>
       /\ op.conn \notin clients
       /\ Closed(op.conn)
       /\ op.got \subseteq op.before \ {op.conn}
       /\ Idle => op.got = op.before \ {op.conn}
       /\ \A d \in op.got : Delivered(d)[Len(Delivered(d))] = LeaveNotice

C6_Witness ==
    /\ op.kind = "unregister"
    /\ Idle
    /\ op.conn = "B"
    /\ op.before = {"A", "B", "C"}
    /\ op.got = {"A", "C"}
    /\ Closed("B")

\* C7: once a connection is removed, the manager never again executes a send
\* on its queue, nothing more is placed on the queue, and the connection
\* stays removed.
C7_NoDeliveryAfterRemoval ==
    /\ [](target # None => ~Removed(target))
    /\ [][\A c \in Conns : Removed(c) =>
             (Delivered(c)' = Delivered(c) /\ Removed(c)')]_vars

C7_Witness ==
    \E c \in Conns :
       /\ Removed(c)
       /\ c \notin op.before
       /\ op.conn # c
       /\ op.got # {}
       /\ wpc[c] = "recv"

\* C8: the queue of a connection is closed at most once; an Unregister for a
\* connection in the registry is the first close of its queue and removes
\* it, after which it is never in the registry again; an Unregister for a
\* connection not in the registry changes neither the registry nor any
\* queue and starts no notice.
C8_IdempotentUnregister ==
    /\ [](\A c \in Conns : closes[c] <= 1 /\ (Closed(c) => c \notin clients))
    /\ [][\A c \in Conns : UnregisterStep(c) =>
             IF c \in clients
               THEN closes[c] = 0 /\ closes'[c] = 1 /\ c \notin clients'
               ELSE /\ clients' = clients
                    /\ closes' = closes
                    /\ mpc' = "select"
                    /\ \A d \in Conns : Delivered(d)' = Delivered(d)]_vars

\* A connection whose peer went away and one that was evicted have both had
\* their two Unregister requests processed.
C8_Witness ==
    \E c, d \in Conns :
       /\ c \in dropped /\ rpc[c] = "done" /\ closes[c] = 1
       /\ d \notin dropped /\ rpc[d] = "done" /\ closes[d] = 1

\* Position of the text of message m among the texts c has submitted.
SubmIndex(c, m) == CHOOSE i \in 1..Len(subm[c]) : subm[c][i] = m.content

\* The messages of log that carry sender c, in the order of log.
FromSender(log, c) ==
    SelectSeq(log, LAMBDA m : "sender" \in DOMAIN m /\ m.sender = c)

InSubmissionOrder(log, c) ==
    \A p, q \in 1..Len(FromSender(log, c)) :
       p < q => SubmIndex(c, FromSender(log, c)[p]) < SubmIndex(c, FromSender(log, c)[q])

\* C9: the messages of one origin are on every queue, and are written to
\* every peer, in the order in which the origin submitted them.
C9_Ordering ==
    \A c, d \in Conns :
       /\ InSubmissionOrder(Delivered(d), c)
       /\ InSubmissionOrder(Written(d), c)

C9_Witness ==
    \E c, d \in Conns :
       /\ c # d
       /\ Len(subm[c]) = 2
       /\ Len(FromSender(Written(d), c)) = 2
       /\ Len(FromSender(Written(c), c)) = 2

\* Neither pump goroutine of c has terminated.
PumpsMayRun(c) == rpc[c] # "done" /\ wpc[c] # "done"

\* C10 (as claimed): between requests, a connection is in the registry if
\* and only if its outbound queue is open and its pumps may still run.
C10_RegistryIffOpenQueue ==
    Idle => \A c \in Conns :
               hs[c] # "new" => (c \in clients <=> (~Closed(c) /\ PumpsMayRun(c)))

\* C10 (amended): between requests, a connection whose Register request the
\* manager has received is in the registry if and only if its outbound
\* queue is open, and neither pump of a connection in the registry has
\* terminated; a connection not yet received is not in the registry.
C10_AcceptedInRegistryIffOpenQueue ==
    Idle => \A c \in Conns :
               /\ Accepted(c) => (c \in clients <=> ~Closed(c))
               /\ c \in clients => (Accepted(c) /\ PumpsMayRun(c))

C10_Witness ==
    /\ Idle
    /\ \E c, d \in Conns :
          /\ c \in clients /\ ~Closed(c) /\ wpc[c] = "write"
          /\ Accepted(d) /\ d \notin clients /\ Closed(d) /\ rpc[d] = "read"

----------------------------------------------------------------------------
\* C11 (as claimed): a Register request for a connection that is already in
\* the registry is rejected: the registry is left as it was and no join
\* notice is placed on any queue.
C11_DuplicateRegisterRejected ==
    /\ ~(op.kind = "register" /\ op.conn \in op.before /\ op.got # {})
    /\ ~(op.kind = "register" /\ op.conn \in op.before /\ clients # op.before)

\* C12 (as claimed): the text a registered connection submits is fanned out
\* as an envelope with the submitter as sender and the text as content, and
\* the pass places it on the submitter's own queue as well as on the queue of
\* every other registered connection (here: when the submitter's outbound
\* loop has been started).
C12_EchoToOriginatorAndEveryMember ==
    [][\A c \in Conns :
          (BroadcastStep(c) /\ c \in clients /\ wpc[c] # "idle") =>
             LET e == [sender |-> c, content |-> subm[c][Len(subm[c])]]
             IN /\ Delivered(c)' = Append(Delivered(c), e)
                /\ \A d \in clients \ {c} : Delivered(d)' = Append(Delivered(d), e)]_vars

\* C12 (amended): the text a connection submits is fanned out as an envelope
\* with exactly two fields, sender = the submitter's identity and content =
\* the text; the pass places it on the queue of every registered connection
\* whose outbound loop is receiving, the submitter's own queue included when
\* the submitter is one of them, and on no other queue.  Every message with a
\* sender that is ever on a queue is such an envelope of a submitted text.
C12_EnvelopeToReceivingMembersAndSelf ==
    /\ [](\A d \in Conns : \A i \in 1..Len(Delivered(d)) :
             LET m == Delivered(d)[i]
             IN "sender" \in DOMAIN m =>
                   /\ DOMAIN m = {"sender", "content"}
                   /\ m.sender \in Conns
                   /\ \E k \in 1..Len(subm[m.sender]) : subm[m.sender][k] = m.content)
    /\ [][\A c \in Conns : BroadcastStep(c) =>
             LET e == [sender |-> c, content |-> subm[c][Len(subm[c])]]
             IN \A d \in Conns :
                   IF d \in clients /\ wpc[d] = "recv"
                     THEN Delivered(d)' = Append(Delivered(d), e)
                     ELSE Delivered(d)' = Delivered(d)]_vars

C12_Witness ==
    /\ op.kind = "broadcast"
    /\ op.conn \in op.before
    /\ op.conn \in op.got
    /\ op.got \ {op.conn} # {}
    /\ \A d \in op.got : Has(d, [sender |-> op.conn, content |-> Text(1)])

\* C13 (as claimed): every join notice and every leave notice carries no
\* sender and no recipient, only a content that begins with the sentinel "/".
C13_NoticesCarrySentinel ==
    \A d \in Conns : \A i \in 1..Len(Delivered(d)) :
       LET m == Delivered(d)[i]
       IN "sender" \notin DOMAIN m =>
             /\ DOMAIN m = {"content"}
             /\ m.content[1] = "/"

\* The manager has processed the Unregister of c, found c in the registry and
\* finished sending the leave notice to every connection that remained.
LeaveNoticeSent(c) ==
    /\ op.kind = "unregister"
    /\ op.conn = c
    /\ c \in op.before
    /\ Idle
    /\ op.got = op.before \ {c}

\* A Broadcast pass has just found c unable to receive and removed it.
Evicted(c) == op.kind = "broadcast" /\ c \in op.full /\ c \in op.before

\* C14 (as claimed): when the read of a registered connection fails, its
\* inbound loop submits Unregister and terminates, the connection is
\* eventually removed from the registry and the remaining members eventually
\* receive its leave notice.
C14_DisconnectAlwaysAnnounced ==
    \A c \in Talkers :
       (c \in clients /\ rpc[c] = "unregister") ~> LeaveNoticeSent(c)

\* C14 (amended): when the read of a connection fails, its inbound loop
\* submits Unregister and eventually terminates, by when the connection is
\* out of the registry with its queue closed; if the connection is in the
\* registry when the read fails, then eventually either the remaining members
\* have all received its leave notice, or a Broadcast pass has evicted it
\* first (and then no leave notice is sent).  The manager always comes back
\* to its select.
C14_DisconnectCleanedUp ==
    /\ \A c \in Talkers :
          /\ (rpc[c] = "unregister") ~>
                (rpc[c] = "done" /\ c \notin clients /\ Closed(c))
          /\ (c \in clients /\ rpc[c] = "unregister") ~>
                (LeaveNoticeSent(c) \/ Evicted(c))
    /\ (mpc = "send") ~> Idle

C14_Witness ==
    \E c \in Talkers :
       /\ c \in dropped
       /\ LeaveNoticeSent(c)
       /\ op.got # {}
       /\ rpc[c] = "deferunregister"

HandlerStep(c) == hs[c] \in {"new", "gowrite"} /\ hs'[c] # hs[c]

\* The step is one the inbound loop of c takes on its own: its read returns.
ReaderStep(c) == rpc[c] = "read" /\ rpc'[c] # rpc[c]

\* The step is one the outbound loop of c takes on its own: it writes the
\* frame it holds, or finds its queue closed and leaves.
WriterStep(c) ==
    \/ wpc[c] = "write" /\ wpc'[c] = "recv"
    \/ wpc[c] = "recv" /\ wpc'[c] = "done"

\* The step is one of the manager: it receives a request, or goes on in send().
ManagerStep ==
    \/ mpc = "send"
    \/ /\ mpc = "select"
       /\ \E c \in Conns : \/ hs[c] = "register" /\ hs'[c] # hs[c]
                           \/ BroadcastStep(c)
                           \/ UnregisterStep(c)

\* C17: no step of an upgrade handler, of an inbound loop or of an outbound
\* loop changes the registry: only steps of the manager add or remove
\* members.  A queue is written and closed only by a step of the manager, and
\* what is placed on the queue of a connection is taken, and written out,
\* only by the outbound loop of that connection.
C17_SharedResourceDiscipline ==
    [][/\ \A c \in Conns :
             (HandlerStep(c) \/ ReaderStep(c) \/ WriterStep(c)) =>
                /\ clients' = clients
                /\ closes' = closes
                /\ \A d \in Conns : Delivered(d)' = Delivered(d)
       /\ (clients' # clients \/ closes' # closes) => ManagerStep
       /\ \A d \in Conns :
             /\ Delivered(d)' # Delivered(d) =>
                   (ManagerStep /\ ~Closed(d) /\ hold'[d] = mmsg' /\ wpc'[d] = "write")
             /\ out'[d] # out[d] =>
                   /\ WriterStep(d)
                   /\ \A e \in Conns \ {d} : out'[e] = out[e] /\ hold'[e] = hold[e]]_vars

C17_Witness ==
    \E c \in Conns :
       /\ c \in clients
       /\ Cardinality(clients) = 2
       /\ hs[c] = "done"
       /\ rpc[c] = "unregister"
       /\ Len(out[c]) > 0

\* C18: the manager never sends on a closed queue and never closes a queue
\* twice: every connection it is about to send to, in send() or in a
\* Broadcast pass, has an open queue, every message is placed on an open
\* queue, and close is executed only on an open queue.  So the control loop
\* never reaches a panic.
C18_NoOperationOnClosedQueue ==
    /\ [](\A c \in Conns :
             /\ closes[c] \in {0, 1}
             /\ c \in clients => ~Closed(c)
             /\ (mpc = "send" /\ (c = target \/ c \in todo)) => ~Closed(c))
    /\ [][\A c \in Conns :
             /\ Delivered(c)' # Delivered(c) => (~Closed(c) /\ ~Closed(c)')
             /\ closes'[c] # closes[c] => (closes[c] = 0 /\ closes'[c] = 1)]_vars

C18_Witness ==
    \E c, d \in Conns :
       /\ op.kind = "unregister"
       /\ op.conn = c
       /\ c \notin op.before
       /\ closes[c] = 1
       /\ closes[d] = 1
       /\ d \notin dropped
       /\ c \in dropped
       /\ clients # {}

\* C19 (as claimed): every peer message the manager fans out was submitted
\* by a connection that is in the registry when the manager processes it: a
\* connection that has been evicted or unregistered originates no further
\* broadcast.
C19_OnlyMembersOriginate ==
    [][\A c \in Conns : BroadcastStep(c) => c \in clients]_vars

\* C20 (as claimed): between the manager accepting the Register of a
\* connection and the handler starting the outbound loop of that connection,
\* no Broadcast pass originated by another connection removes it.
C20_NotEvictedBeforeWriterStarts ==
    [][\A c, d \in Conns :
          (BroadcastStep(d) /\ d # c /\ c \in clients /\ hs[c] = "gowrite") =>
             c \in clients']_vars

====
